---- MODULE Spec2Model ----
(***************************************************************************)
(* Model of src/src/translator.ts: the Translator class, a conversation    *)
(* transcript plus a rate-limited request cycle against a chat-completion  *)
(* client.  The file holds two definitions of the class; `def` says which  *)
(* one an instance was built from.  Names ending in 2 model the second     *)
(* definition where it differs from the first.                             *)
(*                                                                         *)
(* An asynchronous call (translate / addContext / complete) is a record in *)
(* `pending` that moves through the suspension points of the code:         *)
(*   "sleeping"  - inside ensureRateLimit, awaiting delay(msToSleep)       *)
(*   "admitted"  - ensureRateLimit has returned, process awaits its result *)
(*   "inflight"  - client.chat.completions.create has been invoked         *)
(* and then settles into `outcome`.                                        *)
(***************************************************************************)
EXTENDS Integers, Sequences, FiniteSets, TLC

VARIABLES
    def,                    \* 1 or 2: which Translator definition this instance is
    serial,                 \* TRUE when the caller awaits every call before the next
    schema,                 \* this.schema
    messages,               \* this.messages
    requestsTimeline,       \* this.requestsTimeline
    maxAPICallsPerMinute,   \* this.maxAPICallsPerMinute
    now,                    \* new Date().getTime()
    pending,                \* the asynchronous calls that have not settled yet
    outcome,                \* how the most recent caller-visible step ended
    issued,                 \* history: issue timestamp of every request, in order
    nextId,                 \* history: number of asynchronous calls started so far
    quotaChange             \* history: when maxAPICallsPerMinute was assigned

vars == <<def, serial, schema, messages, requestsTimeline, maxAPICallsPerMinute, now,
          pending, outcome, issued, nextId, quotaChange>>

-----------------------------------------------------------------------------
(* Bounds of the model *)

MaxTime == 200000
MaxCalls == 4
MaxMessages == 5
MaxQuota == 2
MaxPending == 2

(* Clock steps the environment may take between two events, in ms. *)
TickSteps == {20000, 60000}

-----------------------------------------------------------------------------
(* Program constants *)

OneMinute == 60000
Gap == 200
oneMinutePlusGap == OneMinute + Gap
DefaultQuota == 3

systemInstructions ==
    "You are a translator assistant.\nYour goal is to translate user inputs into JSON Objects matching this schema:"
systemInstructions2 ==
    "You are a translator assistant.\n    Your goal is to translate user inputs into JSON Objects matching this schema:"

(* The code fence of three backquotes; a TLA+ string cannot hold a          *)
(* backquote, so three tildes stand for it.                                *)
fence == "~~~"

addContextPrompt == "Complete your last response using this context:"
completePrompt == "Complete your last response using this input:"

-----------------------------------------------------------------------------
(* JSON values, JSON.stringify(value, null, gap) and JSON.parse.  Texts are  *)
(* strings; a JSON value is a tagged record.                                *)

JNull == [t |-> "null"]
JNum(n) == [t |-> "number", n |-> n]
JStr(s) == [t |-> "string", s |-> s]
JObj(members) == [t |-> "object", m |-> members]

RECURSIVE Stringify(_, _, _)
RECURSIVE StringifyMembers(_, _, _, _)

(* The "key": value parts of an object, joined by sep. *)
StringifyMembers(members, gap, indent, sep) ==
    IF members = <<>> THEN ""
    ELSE LET head == members[1]
             part == "\"" \o head[1] \o "\":" \o (IF gap = "" THEN "" ELSE " ")
                     \o Stringify(head[2], gap, indent)
         IN  IF Len(members) = 1 THEN part
             ELSE part \o sep \o StringifyMembers(Tail(members), gap, indent, sep)

(* JSON.stringify: indent is the indentation reached so far. *)
Stringify(v, gap, indent) ==
    CASE v.t = "null" -> "null"
      [] v.t = "number" -> ToString(v.n)
      [] v.t = "string" -> "\"" \o v.s \o "\""
      [] v.t = "object" ->
            LET inner == indent \o gap
            IN  IF v.m = <<>> THEN "{}"
                ELSE IF gap = "" THEN "{" \o StringifyMembers(v.m, gap, inner, ",") \o "}"
                ELSE "{\n" \o inner
                     \o StringifyMembers(v.m, gap, inner, ",\n" \o inner)
                     \o "\n" \o indent \o "}"

Pretty(v) == Stringify(v, "  ", "")
Compact(v) == Stringify(v, "", "")

(* The values the model's texts can denote. *)
NameObj == JObj(<< <<"name", JStr("Alice")>> >>)
Schemas == { JObj(<<>>),
             JObj(<< <<"type", JStr("object")>>,
                     <<"properties",  JObj(<< <<"name", JObj(<< <<"type", JStr("string")>> >>)>> >>)>> >>) }
Results == { NameObj }
JSONValues == Results \cup {JNull, JNum(1)}

(* JSON.parse: the value a text denotes, whatever its white space, or a      *)
(* SyntaxError when it denotes none.                                        *)
JSONParse(text) ==
    LET denoting == {v \in JSONValues : text \in {Compact(v), Pretty(v)}}
    IN  IF denoting = {} THEN [ok |-> FALSE]
        ELSE [ok |-> TRUE, value |-> CHOOSE v \in denoting : TRUE]

-----------------------------------------------------------------------------
(* Inputs of the operations *)

Inputs == {"Alice", ""}
(* The role/content pairs handed to addMessage. *)
Added == { <<"Alice", "assistant">>, <<"null", "user">>, <<"Alice", "system">> }
Replies == {Compact(NameObj), "Sorry", ""}
FinishReasons == {"stop", "length"}

Message(role, content) == [role |-> role, content |-> content]

-----------------------------------------------------------------------------
(* Helpers on sequences *)

slice1(s) == IF s = <<>> THEN <<>> ELSE Tail(s)

RemoveAt(s, i) == [j \in 1..(Len(s) - 1) |-> IF j < i THEN s[j] ELSE s[j + 1]]

IsPrefix(s, t) == Len(s) <= Len(t) /\ \A i \in 1..Len(s) : s[i] = t[i]

(* Mutant: the gate asks for any message, not for one from the assistant. *)
someMessage(msgs) == Len(msgs) > 0

(* Mutant: the gate asks for a translation to be the latest message. *)
lastIsAssistant(msgs) == Len(msgs) > 0 /\ msgs[Len(msgs)].role = "assistant"

(* messages.some((x) => x.role === "assistant") *)
someAssistant(msgs) == \E i \in 1..Len(msgs) : msgs[i].role = "assistant"

-----------------------------------------------------------------------------
(* ensureRateLimit.  The part up to the first suspension is a function of    *)
(* the timeline, the quota and the clock; it yields the new timeline and     *)
(* whether the call sleeps, and for how long.                                *)

(* Mutant: the quota test is off by one. *)
overQuotaOffByOne(timeline, quota, currentTime, window) ==
    Len(timeline) > quota /\ currentTime - timeline[1] < window

(* Mutant: a full timeline delays the caller whatever the age of its head. *)
overQuotaIgnoresAge(timeline, quota, currentTime, window) == Len(timeline) >= quota

(* The condition of the if, lines 46-49 and 241-244. *)
overQuota(timeline, quota, currentTime, window) ==
    Len(timeline) >= quota /\ currentTime - timeline[1] < window

(* Mutant: the elapsed time is subtracted the wrong way round. *)
msToSleepSignSlip(timeline, currentTime, window) == window - (timeline[1] - currentTime)

msToSleep(timeline, currentTime, window) == window - (currentTime - timeline[1])

(* Mutant: the list is cut only once it is longer than the quota. *)
keepMaxLate(timeline, quota) ==
    IF Len(timeline) > quota THEN slice1(timeline) ELSE timeline

(* Lines 58-62: keep the list to max quota items. *)
keepMax(timeline, quota) ==
    IF Len(timeline) >= quota THEN slice1(timeline) ELSE timeline

ensureRateLimit(timeline, quota, currentTime) ==
    IF overQuota(timeline, quota, currentTime, oneMinutePlusGap)
    THEN [pc |-> "sleeping", ms |-> msToSleep(timeline, currentTime, oneMinutePlusGap),
          timeline |-> timeline]
    ELSE [pc |-> "admitted", ms |-> 0, timeline |-> keepMax(timeline, quota)]

ensureRateLimit2(timeline, quota, currentTime) ==
    IF overQuota(timeline, quota, currentTime, OneMinute)
    THEN [pc |-> "sleeping", ms |-> msToSleep(timeline, currentTime, OneMinute),
          timeline |-> timeline]
    ELSE [pc |-> "admitted", ms |-> 0, timeline |-> timeline]

(* What ensureRateLimit does to the timeline once delay() has resolved. *)
afterDelay(timeline, quota) == keepMax(timeline, quota)
afterDelay2(timeline, quota) == slice1(timeline)

-----------------------------------------------------------------------------
(* The conversation *)

(* The system message translate builds. *)
systemMessage(s) ==
    Message("system", systemInstructions \o "\n\n" \o fence \o "json\n"
                      \o Stringify(s, "  ", "") \o "\n" \o fence \o "\n")
systemMessage2(s) ==
    Message("system", systemInstructions2 \o "\n" \o fence \o "json\n"
                      \o Stringify(s, "  ", "") \o "\n" \o fence \o "\n")

(* Mutant: translate forgets to clear this.messages. *)
translateMessagesKeep(s, input) ==
    messages \o << systemMessage(s), Message("user", input) >>

(* The conversation translate resets to. *)
translateMessages(s, input) == << systemMessage(s), Message("user", input) >>
translateMessages2(s, input) == << systemMessage2(s), Message("user", input) >>

(* The user message addContext / complete appends. *)
contextMessage(input, prompt) ==
    Message("user", prompt \o "\n" \o fence \o "\n" \o input \o "\n" \o fence \o "\n")

(* Mutant: the example's answer is pushed before its question. *)
exampleMessagesSwapped(input, res) ==
    << Message("assistant", Stringify(res, "  ", "")), Message("user", input) >>

(* The two messages addExample appends. *)
exampleMessages(input, res) ==
    << Message("user", input), Message("assistant", Stringify(res, "  ", "")) >>

(* Mutant: result parses the last message whatever its role. *)
resultAnyRole(msgs) ==
    IF Len(msgs) = 0 THEN [threw |-> FALSE, value |-> JNull]
    ELSE LET lastMessage == msgs[Len(msgs)]
         IN  IF lastMessage.content = "" THEN [threw |-> FALSE, value |-> JNull]
             ELSE LET parsed == JSONParse(lastMessage.content)
                  IN  IF parsed.ok THEN [threw |-> FALSE, value |-> parsed.value]
                      ELSE [threw |-> TRUE, value |-> JNull]

(* get result(): a JS value, or a thrown SyntaxError.  null is JNull. *)
result(msgs) ==
    IF Len(msgs) = 0 THEN [threw |-> FALSE, value |-> JNull]
    ELSE LET lastMessage == msgs[Len(msgs)]
         IN  IF lastMessage.role # "assistant" THEN [threw |-> FALSE, value |-> JNull]
             ELSE IF lastMessage.content = "" THEN [threw |-> FALSE, value |-> JNull]
             ELSE LET parsed == JSONParse(lastMessage.content)
                  IN  IF parsed.ok THEN [threw |-> FALSE, value |-> parsed.value]
                      ELSE [threw |-> TRUE, value |-> JNull]

-----------------------------------------------------------------------------
(* State after construction *)

NoOutcome == [kind |-> "none"]

(* The quota still has the value it was constructed with. *)
NoChange == [n |-> -1, at |-> -1]

Init ==
    /\ def \in {1, 2}
    /\ serial \in BOOLEAN
    /\ schema \in Schemas
    /\ messages = <<>>
    /\ requestsTimeline = <<>>
    /\ maxAPICallsPerMinute \in (1..MaxQuota) \cup {DefaultQuota}
    /\ now = 0
    /\ pending = <<>>
    /\ outcome = NoOutcome
    /\ issued = <<>>
    /\ nextId = 0
    /\ quotaChange = NoChange

-----------------------------------------------------------------------------
(* The caller *)

(* Mutant: the promise resolves as soon as the request has been sent. *)
awaitedUntilSent(call) == call.pc \in {"sleeping", "admitted"}

(* The promise translate / addContext returned is the promise of the whole  *)
(* request cycle: it is pending until the reply is pushed or the client     *)
(* fails.                                                                   *)
awaited(call) == call.pc \in {"sleeping", "admitted", "inflight"}

(* The caller may run its next statement: a serial caller only once the     *)
(* call it awaits has settled.                                              *)
CallerReady ==
    /\ Len(pending) < MaxPending
    /\ serial => \A i \in 1..Len(pending) : ~awaited(pending[i])

(* History: a translate call marks the requests in flight whose conversation *)
(* it replaces.                                                             *)
resetting(op, calls) ==
    [i \in 1..Len(calls) |->
        IF op = "translate" /\ calls[i].pc = "inflight"
        THEN [calls[i] EXCEPT !.reset = TRUE] ELSE calls[i]]

(* Room left in the bounded transcript, each pending call still owing a reply. *)
Room(n) == Len(messages) + Len(pending) + n <= MaxMessages

-----------------------------------------------------------------------------
(* process / doLLMComplete up to its first suspension: the call enters       *)
(* ensureRateLimit and either sleeps or is admitted at once.                 *)

enterCycle(op, input, msgs) ==
    LET r == IF def = 1
             THEN ensureRateLimit(requestsTimeline, maxAPICallsPerMinute, now)
             ELSE ensureRateLimit2(requestsTimeline, maxAPICallsPerMinute, now)
    IN  /\ now + r.ms <= MaxTime
        /\ messages' = msgs
        /\ requestsTimeline' = r.timeline
        /\ pending' = Append(resetting(op, pending),
                              [id |-> nextId + 1, op |-> op, input |-> input,
                               pc |-> r.pc, wakeAt |-> now + r.ms, ms |-> r.ms,
                               sent |-> <<>>, invoked |-> 0, reset |-> FALSE])
        /\ nextId' = nextId + 1
        /\ outcome' = NoOutcome
        /\ UNCHANGED <<quotaChange, def, serial, schema, maxAPICallsPerMinute, now, issued>>

translate(input) ==
    /\ CallerReady
    /\ nextId < MaxCalls
    /\ enterCycle("translate", input,
                  IF def = 1 THEN translateMessages(schema, input)
                             ELSE translateMessages2(schema, input))

(* addContext in the first definition, complete in the second. *)
addContext(input, prompt) ==
    /\ CallerReady
    /\ IF ~someAssistant(messages)
       THEN /\ outcome' = [kind |-> "rejected", op |-> "addContext",
                           before |-> messages, invoked |-> 0]
            /\ UNCHANGED <<quotaChange, def, serial, schema, messages, requestsTimeline,
                           maxAPICallsPerMinute, now, pending, issued, nextId>>
       ELSE /\ nextId < MaxCalls
            /\ Room(2)
            /\ enterCycle("addContext", input, Append(messages, contextMessage(input, prompt)))

(* Mutant: the quota is tested again after the delay, and the call sleeps   *)
(* for another window.                                                      *)
wakeResleeps(i) ==
    /\ pending[i].pc = "sleeping"
    /\ now >= pending[i].wakeAt
    /\ \A j \in 1..Len(pending) : pending[j].pc # "admitted"
    /\ pending' = [pending EXCEPT ![i].wakeAt = @ + oneMinutePlusGap]
    /\ UNCHANGED <<quotaChange, def, serial, schema, messages, requestsTimeline,
                   maxAPICallsPerMinute, now, outcome, issued, nextId>>

(* delay(msToSleep) resolves and ensureRateLimit runs to its end. *)
wake(i) ==
    /\ pending[i].pc = "sleeping"
    /\ now >= pending[i].wakeAt
    /\ \A j \in 1..Len(pending) : pending[j].pc # "admitted"
    /\ requestsTimeline' = IF def = 1
                           THEN afterDelay(requestsTimeline, maxAPICallsPerMinute)
                           ELSE afterDelay2(requestsTimeline, maxAPICallsPerMinute)
    /\ pending' = [pending EXCEPT ![i].pc = "admitted"]
    /\ UNCHANGED <<quotaChange, def, serial, schema, messages, maxAPICallsPerMinute, now,
                   outcome, issued, nextId>>

(* process resumes after await ensureRateLimit(): it records the issue       *)
(* timestamp and invokes the completion client with this.messages.           *)
issue(i) ==
    /\ pending[i].pc = "admitted"
    /\ \A j \in 1..(i - 1) : pending[j].pc # "admitted"
    /\ requestsTimeline' = Append(requestsTimeline, now)
    /\ issued' = Append(issued, now)
    /\ pending' = [pending EXCEPT ![i].pc = "inflight", ![i].sent = messages,
                                  ![i].invoked = @ + 1]
    /\ UNCHANGED <<quotaChange, def, serial, schema, messages, maxAPICallsPerMinute, now,
                   outcome, nextId>>

(* Mutant: the reply is never pushed. *)
replyDropped(i, content, finish_reason) ==
    /\ pending[i].pc = "inflight"
    /\ \A j \in 1..Len(pending) : pending[j].pc # "admitted"
    /\ pending' = RemoveAt(pending, i)
    /\ outcome' = [kind |-> "returned", op |-> pending[i].op, id |-> pending[i].id,
                   input |-> pending[i].input, reset |-> pending[i].reset,
                   sent |-> pending[i].sent, invoked |-> pending[i].invoked,
                   reply |-> Message("assistant", content),
                   badStop |-> (finish_reason # "stop")]
    /\ UNCHANGED <<quotaChange, def, serial, schema, messages, requestsTimeline,
                   maxAPICallsPerMinute, now, issued, nextId>>

(* Mutant: the reply is spliced in right after the messages it answers. *)
replySpliced(i, content, finish_reason) ==
    /\ pending[i].pc = "inflight"
    /\ \A j \in 1..Len(pending) : pending[j].pc # "admitted"
    /\ messages' = LET n == IF Len(pending[i].sent) <= Len(messages)
                            THEN Len(pending[i].sent) ELSE Len(messages)
                   IN  SubSeq(messages, 1, n) \o << Message("assistant", content) >>
                       \o SubSeq(messages, n + 1, Len(messages))
    /\ pending' = RemoveAt(pending, i)
    /\ outcome' = [kind |-> "returned", op |-> pending[i].op, id |-> pending[i].id,
                   input |-> pending[i].input, reset |-> pending[i].reset,
                   sent |-> pending[i].sent, invoked |-> pending[i].invoked,
                   reply |-> Message("assistant", content),
                   badStop |-> (finish_reason # "stop")]
    /\ UNCHANGED <<quotaChange, def, serial, schema, requestsTimeline, maxAPICallsPerMinute,
                   now, issued, nextId>>

(* Mutant: a reply whose finish_reason is not "stop" is thrown away and the  *)
(* call rejects.                                                            *)
replyRejectsBadStop(i, content, finish_reason) ==
    /\ pending[i].pc = "inflight"
    /\ \A j \in 1..Len(pending) : pending[j].pc # "admitted"
    /\ messages' = IF finish_reason = "stop"
                   THEN Append(messages, Message("assistant", content)) ELSE messages
    /\ pending' = RemoveAt(pending, i)
    /\ outcome' = [kind |-> IF finish_reason = "stop" THEN "returned" ELSE "failed",
                   op |-> pending[i].op, id |-> pending[i].id,
                   input |-> pending[i].input, reset |-> pending[i].reset,
                   sent |-> pending[i].sent, invoked |-> pending[i].invoked,
                   reply |-> Message("assistant", content),
                   badStop |-> (finish_reason # "stop")]
    /\ UNCHANGED <<quotaChange, def, serial, schema, requestsTimeline, maxAPICallsPerMinute,
                   now, issued, nextId>>

(* The completion client resolves: the reply is pushed and the call returns. *)
reply(i, content, finish_reason) ==
    /\ pending[i].pc = "inflight"
    /\ \A j \in 1..Len(pending) : pending[j].pc # "admitted"
    /\ messages' = Append(messages, Message("assistant", content))
    /\ pending' = RemoveAt(pending, i)
    /\ outcome' = [kind |-> "returned", op |-> pending[i].op, id |-> pending[i].id,
                   input |-> pending[i].input, reset |-> pending[i].reset,
                   sent |-> pending[i].sent, invoked |-> pending[i].invoked,
                   reply |-> Message("assistant", content),
                   badStop |-> (finish_reason # "stop")]
    /\ UNCHANGED <<quotaChange, def, serial, schema, requestsTimeline, maxAPICallsPerMinute,
                   now, issued, nextId>>

(* Mutant: a failed request is sent again. *)
failRetry(i) ==
    /\ pending[i].pc = "inflight"
    /\ \A j \in 1..Len(pending) : pending[j].pc # "admitted"
    /\ pending' = [pending EXCEPT ![i].pc = "admitted"]
    /\ UNCHANGED <<quotaChange, def, serial, schema, messages, requestsTimeline,
                   maxAPICallsPerMinute, now, outcome, issued, nextId>>

(* Mutant: a failed request gives its slot in the timeline back. *)
failRollsBack(i) ==
    /\ pending[i].pc = "inflight"
    /\ \A j \in 1..Len(pending) : pending[j].pc # "admitted"
    /\ pending' = RemoveAt(pending, i)
    /\ requestsTimeline' = SubSeq(requestsTimeline, 1, Len(requestsTimeline) - 1)
    /\ outcome' = [kind |-> "failed", op |-> pending[i].op, id |-> pending[i].id,
                   input |-> pending[i].input, reset |-> pending[i].reset,
                   sent |-> pending[i].sent, invoked |-> pending[i].invoked]
    /\ UNCHANGED <<quotaChange, def, serial, schema, messages, maxAPICallsPerMinute, now,
                   issued, nextId>>

(* The completion client rejects: nothing catches it, the call rejects. *)
fail(i) ==
    /\ pending[i].pc = "inflight"
    /\ \A j \in 1..Len(pending) : pending[j].pc # "admitted"
    /\ pending' = RemoveAt(pending, i)
    /\ outcome' = [kind |-> "failed", op |-> pending[i].op, id |-> pending[i].id,
                   input |-> pending[i].input, reset |-> pending[i].reset,
                   sent |-> pending[i].sent, invoked |-> pending[i].invoked]
    /\ UNCHANGED <<quotaChange, def, serial, schema, messages, requestsTimeline,
                   maxAPICallsPerMinute, now, issued, nextId>>

-----------------------------------------------------------------------------
(* The synchronous operations *)

addExample(input, res) ==
    /\ CallerReady
    /\ Room(2)
    /\ messages' = messages \o exampleMessages(input, res)
    /\ outcome' = NoOutcome
    /\ UNCHANGED <<quotaChange, def, serial, schema, requestsTimeline, maxAPICallsPerMinute,
                   now, pending, issued, nextId>>

(* Mutant: addMessage puts the message in front (unshift for push). *)
addMessageFront(content, role) ==
    /\ CallerReady
    /\ Room(1)
    /\ messages' = << Message(role, content) >> \o messages
    /\ outcome' = NoOutcome
    /\ UNCHANGED <<quotaChange, def, serial, schema, requestsTimeline, maxAPICallsPerMinute,
                   now, pending, issued, nextId>>

addMessage(content, role) ==
    /\ CallerReady
    /\ Room(1)
    /\ messages' = Append(messages, Message(role, content))
    /\ outcome' = NoOutcome
    /\ UNCHANGED <<quotaChange, def, serial, schema, requestsTimeline, maxAPICallsPerMinute,
                   now, pending, issued, nextId>>

(* Reading the result property. *)
getResult ==
    /\ CallerReady
    /\ outcome' = [kind |-> "result", got |-> result(messages)]
    /\ UNCHANGED <<quotaChange, def, serial, schema, messages, requestsTimeline,
                   maxAPICallsPerMinute, now, pending, issued, nextId>>

(* middleware in the first definition, processResult in the second: the      *)
(* handler receives this.result, unless reading it throws.                   *)
middleware ==
    /\ CallerReady
    /\ outcome' = [kind |-> "handled", got |-> result(messages)]
    /\ UNCHANGED <<quotaChange, def, serial, schema, messages, requestsTimeline,
                   maxAPICallsPerMinute, now, pending, issued, nextId>>

-----------------------------------------------------------------------------
(* The clock: time passes by a step, or up to the expiry of a pending timer. *)

tick(d) ==
    /\ d > 0
    /\ now + d <= MaxTime
    /\ now' = now + d
    /\ UNCHANGED <<quotaChange, def, serial, schema, messages, requestsTimeline,
                   maxAPICallsPerMinute, pending, outcome, issued, nextId>>

TimerGaps == {pending[i].wakeAt - now : i \in {j \in 1..Len(pending) : pending[j].pc = "sleeping"}}

-----------------------------------------------------------------------------

(* The request cycle and the clock, whatever the caller does. *)
cycleStep ==
    \/ \E i \in 1..Len(pending) : wake(i)
    \/ \E i \in 1..Len(pending) : issue(i)
    \/ \E i \in 1..Len(pending) : fail(i)

(* A caller that only paces requests: one input, one reply, a moving clock. *)
NextRate ==
    \/ translate("Alice")
    \/ addContext("Alice", IF def = 1 THEN addContextPrompt ELSE completePrompt)
    \/ cycleStep
    \/ \E i \in 1..Len(pending) : reply(i, Compact(NameObj), "stop")
    \/ \E d \in TickSteps \cup TimerGaps : tick(d)

(* A caller that uses every operation on every input; time passes only up   *)
(* to the expiry of a pending timer.                                        *)
Next ==
    \/ \E input \in Inputs : translate(input)
    \/ \E input \in Inputs : addContext(input, IF def = 1 THEN addContextPrompt ELSE completePrompt)
    \/ cycleStep
    \/ \E i \in 1..Len(pending), content \in Replies, fr \in FinishReasons : reply(i, content, fr)
    \/ \E input \in Inputs, res \in Results : addExample(input, res)
    \/ \E m \in Added : addMessage(m[1], m[2])
    \/ getResult
    \/ middleware
    \/ \E d \in TimerGaps : tick(d)

(* Either definition, every operation, driven by a serial caller. *)
InitSerial == Init /\ serial /\ maxAPICallsPerMinute = DefaultQuota
Spec == InitSerial /\ [][Next]_vars

(* The first definition pacing the requests of a serial caller. *)
InitSerial1 == Init /\ def = 1 /\ serial /\ schema = JObj(<<>>)
SpecRate1 == InitSerial1 /\ [][NextRate]_vars

(* The second definition pacing the requests of a serial caller. *)
InitSerial2 == Init /\ def = 2 /\ serial /\ schema = JObj(<<>>)
SpecRate2 == InitSerial2 /\ [][NextRate]_vars

(* Either definition pacing the requests of a serial caller. *)
InitRate == Init /\ serial /\ schema = JObj(<<>>)
SpecRate == InitRate /\ [][NextRate]_vars

(* The caller assigns the public field maxAPICallsPerMinute between two     *)
(* awaited request cycles, lowering the quota; n is the number of requests  *)
(* issued so far and at the time of the assignment.                         *)
setQuota(q) ==
    /\ CallerReady
    /\ quotaChange = NoChange
    /\ q >= 1
    /\ q < maxAPICallsPerMinute
    /\ maxAPICallsPerMinute' = q
    /\ quotaChange' = [n |-> Len(issued), at |-> now]
    /\ UNCHANGED <<def, serial, schema, messages, requestsTimeline, now, pending,
                   outcome, issued, nextId>>

(* The first definition pacing a serial caller that lowers the quota once. *)
NextQuota ==
    \/ NextRate
    \/ \E q \in 1..MaxQuota : setQuota(q)

InitQuota == InitSerial1 /\ maxAPICallsPerMinute >= 2
SpecQuota == InitQuota /\ [][NextQuota]_vars

(* The timer of delay() fires and the completion client settles its promise. *)
timerFires == \E d \in TimerGaps : tick(d)
clientResponds ==
    \E i \in 1..Len(pending) : reply(i, Compact(NameObj), "stop") \/ fail(i)
processResumes == \E i \in 1..Len(pending) : wake(i) \/ issue(i)

(* Either definition pacing a serial caller, the event loop running every   *)
(* continuation that is ready.                                              *)
InitLive == InitRate /\ maxAPICallsPerMinute \in {1, DefaultQuota}
SpecLive ==
    /\ InitLive
    /\ [][NextRate]_vars
    /\ WF_vars(timerFires)
    /\ WF_vars(processResumes)
    /\ WF_vars(clientResponds)

(* A caller that starts operations while earlier calls are still pending.   *)
NextOverlap ==
    \/ translate("Alice")
    \/ addContext("Alice", IF def = 1 THEN addContextPrompt ELSE completePrompt)
    \/ cycleStep
    \/ \E i \in 1..Len(pending) : reply(i, Compact(NameObj), "stop")
    \/ addExample("Alice", NameObj)
    \/ addMessage("Alice", "user")
    \/ \E d \in TimerGaps : tick(d)

(* Either definition and either caller: one that awaits every call, one    *)
(* that starts calls before earlier ones have settled.                      *)
InitAnyCaller ==
    Init /\ schema = JObj(<<>>) /\ maxAPICallsPerMinute \in {1, DefaultQuota}
SpecAnyCaller == InitAnyCaller /\ [][NextOverlap]_vars

-----------------------------------------------------------------------------
(* Rate pacing *)

(* No more than quota requests are issued inside any rolling window of one  *)
(* minute: request k and request k + quota are at least a minute apart.     *)
WithinQuota(quota) ==
    \A i, j \in 1..Len(issued) :
        j = i + quota => issued[j] - issued[i] >= OneMinute

(* C1: the first definition, driven serially with a constant quota, never   *)
(* issues more than quota requests inside any rolling window of 60000 ms.   *)
C1_RollingWindow == def = 1 /\ serial => WithinQuota(maxAPICallsPerMinute)

(* A call that found the quota used up slept and was issued exactly         *)
(* oneMinutePlusGap after the request it had to wait for.                   *)
C1_Witness ==
    /\ def = 1
    /\ Len(issued) > maxAPICallsPerMinute
    /\ issued[Len(issued)] - issued[Len(issued) - maxAPICallsPerMinute] = oneMinutePlusGap

(* C2: the second definition, driven serially with a constant quota, never  *)
(* issues more than quota requests inside any rolling window of 60000 ms,   *)
(* also after the caller has been idle for longer than the window.          *)
C2_RollingWindow2 == def = 2 /\ serial => WithinQuota(maxAPICallsPerMinute)

-----------------------------------------------------------------------------
(* The conversation *)

noAssistantIn(msgs) == \A i \in 1..Len(msgs) : msgs[i].role # "assistant"

Last(msgs) == msgs[Len(msgs)]

(* A step that is a call of addContext / complete, with any input. *)
addContextCalled ==
    \E input \in Inputs : addContext(input, IF def = 1 THEN addContextPrompt ELSE completePrompt)

(* A step that is a call of translate, with any input. *)
translateCalled == \E input \in Inputs : translate(input)

(* C3: addContext (complete) called while no message has role assistant     *)
(* fails, leaves the messages as they were, records no timestamp and does   *)
(* not invoke the completion client.                                        *)
C3_ContextPrecondition ==
    [][ (noAssistantIn(messages) /\ addContextCalled)
        => /\ outcome'.kind = "rejected"
           /\ messages' = messages
           /\ requestsTimeline' = requestsTimeline
           /\ issued' = issued
           /\ pending' = pending ]_vars

(* addContext has just been rejected on a conversation that holds messages, *)
(* none of them from the assistant.                                         *)
C3_Witness ==
    /\ outcome.kind = "rejected"
    /\ messages # <<>>
    /\ noAssistantIn(messages)

(* The system text translate is to build: the instructions, then the schema *)
(* pretty-printed inside a json fence.                                      *)
instructionsThenSchema ==
    (IF def = 1 THEN systemInstructions \o "\n\n" ELSE systemInstructions2 \o "\n")
    \o fence \o "json\n" \o Pretty(schema) \o "\n" \o fence \o "\n"

(* C4: the messages translate(I) hands to the completion client are exactly *)
(* a system message holding the instructions and the pretty-printed schema, *)
(* then a user message holding I; nothing older survives.                   *)
C4_ResetIntegrity ==
    \A i \in 1..Len(pending) :
        (pending[i].op = "translate" /\ pending[i].pc = "inflight")
        => pending[i].sent = << [role |-> "system", content |-> instructionsThenSchema],
                                [role |-> "user", content |-> pending[i].input] >>

(* A translate request with an empty input is in flight, called after an    *)
(* earlier call had left its messages in the conversation.                  *)
C4_Witness ==
    /\ pending # <<>>
    /\ pending[1].op = "translate"
    /\ pending[1].pc = "inflight"
    /\ pending[1].id >= 2
    /\ pending[1].input = ""

(* C5: every step other than a translate call leaves the messages it found  *)
(* as a prefix of the messages it leaves.                                   *)
C5_AppendOnly ==
    [][ ~translateCalled => IsPrefix(messages, messages') ]_vars

(* A conversation that grew beyond the three messages of a translate. *)
C5_Witness ==
    /\ Len(messages) >= 5
    /\ messages[1].role = "system"
    /\ outcome.kind = "returned"
    /\ outcome.op = "addContext"

(* What reading result yields on a conversation ending in the message m. *)
resultOf(m) ==
    IF m.content # "" /\ JSONParse(m.content).ok
    THEN [threw |-> FALSE, value |-> JSONParse(m.content).value]
    ELSE [threw |-> (m.content # ""), value |-> JNull]

(* C6: when a serially driven translate or addContext has returned, the     *)
(* last message is the assistant message its request returned, and result   *)
(* is computed from that message.                                           *)
C6_ReplyIsLast ==
    (serial /\ outcome.kind = "returned")
    => /\ messages # <<>>
       /\ Last(messages) = outcome.reply
       /\ outcome.reply.role = "assistant"
       /\ Len(messages) = Len(outcome.sent) + 1
       /\ result(messages) = resultOf(outcome.reply)

(* A call returned a JSON reply and result is the parsed object. *)
C6_Witness ==
    /\ outcome.kind = "returned"
    /\ result(messages) = [threw |-> FALSE, value |-> NameObj]

(* C7: result is null, without raising, on an empty conversation or one     *)
(* whose last message is not from the assistant; it is the parsed content   *)
(* when the last message is from the assistant and parses; it raises only   *)
(* on an assistant message that does not parse.                             *)
C7_ResultGetter ==
    LET r == result(messages)
        fromAssistant == messages # <<>> /\ Last(messages).role = "assistant"
    IN  /\ ~fromAssistant => r = [threw |-> FALSE, value |-> JNull]
        /\ (fromAssistant /\ JSONParse(Last(messages).content).ok)
           => r = [threw |-> FALSE, value |-> JSONParse(Last(messages).content).value]
        /\ r.value # JNull => (fromAssistant /\ JSONParse(Last(messages).content).ok)
        /\ r.threw => (fromAssistant /\ ~JSONParse(Last(messages).content).ok)

(* result has been read on a conversation ending in an assistant message    *)
(* that is no JSON, and reading it raised.                                  *)
C7_Witness ==
    /\ outcome.kind = "result"
    /\ outcome.got.threw
    /\ Last(messages) = [role |-> "assistant", content |-> "Sorry"]

-----------------------------------------------------------------------------
(* Overlapping calls *)

inFlight == {i \in 1..Len(pending) : pending[i].pc = "inflight"}

(* C8, as claimed: an instance never has two completion requests in flight, *)
(* whether or not the caller awaits one call before starting the next.      *)
C8_NeverTwoInFlight == Cardinality(inFlight) <= 1

(* C8, amended: an instance whose caller awaits every translate and         *)
(* addContext before starting the next never has two requests in flight.    *)
C8_SerialOneInFlight == serial => Cardinality(inFlight) <= 1

(* A serial caller's second call has its request in flight. *)
C8_Witness ==
    /\ serial
    /\ \E i \in inFlight : pending[i].id >= 2

(* The reply of the call that just returned stands after the messages that  *)
(* were sent in its request, which still begin the conversation.            *)
replyAfterSent ==
    /\ IsPrefix(outcome.sent, messages)
    /\ Len(messages) > Len(outcome.sent)
    /\ Last(messages) = outcome.reply

(* C9, as claimed: under every interleaving with other operations of the    *)
(* same instance, translate included, the reply is appended to a            *)
(* conversation that begins with the messages sent in its request.          *)
C9_ReplyAfterSent == outcome.kind = "returned" => replyAfterSent

(* C9, amended: the same, for every interleaving in which no translate is   *)
(* called while the request is in flight.                                   *)
C9_ReplyAfterSentUnlessReset ==
    (outcome.kind = "returned" /\ ~outcome.reset) => replyAfterSent

(* A reply arrived after other messages had been appended while its request *)
(* was in flight.                                                           *)
C9_Witness ==
    /\ ~serial
    /\ outcome.kind = "returned"
    /\ ~outcome.reset
    /\ Len(messages) > Len(outcome.sent) + 1

-----------------------------------------------------------------------------
(* Failures of the completion client *)

notYetIssued == {i \in 1..Len(pending) : pending[i].pc \in {"sleeping", "admitted"}}

(* C10: every translate, and every addContext that passes its precondition, *)
(* invokes the completion client exactly once; when the invocation fails    *)
(* the call fails, the client is not invoked again and no assistant message *)
(* is appended.                                                             *)
C10_OneInvocationNoRetry ==
    /\ \A i \in 1..Len(pending) :
          pending[i].invoked = IF pending[i].pc = "inflight" THEN 1 ELSE 0
    /\ Len(issued) + Cardinality(notYetIssued) = nextId
    /\ outcome.kind \in {"returned", "failed"} => outcome.invoked = 1
    /\ outcome.kind = "failed" => (pending = <<>> /\ messages = outcome.sent)

(* The request of an addContext call failed. *)
C10_Witness ==
    /\ outcome.kind = "failed"
    /\ outcome.op = "addContext"
    /\ Last(messages).role = "user"

-----------------------------------------------------------------------------
(* Stop reasons *)

(* C11: whatever stop reason the provider returns, the request cycle raises *)
(* nothing and appends the returned assistant message as it does for a      *)
(* normal stop; conversation and result do not depend on the stop reason,   *)
(* which only decides whether "Bad stop" is logged.                         *)
C11_StopReasonOnlyLogged ==
    [][ \A i \in 1..Len(pending), content \in Replies, fr \in FinishReasons :
            reply(i, content, fr)
            => /\ outcome'.kind = "returned"
               /\ outcome'.badStop = (fr # "stop")
               /\ messages' = Append(messages, [role |-> "assistant", content |-> content])
               /\ result(messages') = resultOf([role |-> "assistant", content |-> content])
               /\ requestsTimeline' = requestsTimeline ]_vars

(* A reply cut short by the provider has been appended and is the result. *)
C11_Witness ==
    /\ outcome.kind = "returned"
    /\ outcome.badStop
    /\ Last(messages) = outcome.reply
    /\ result(messages) = [threw |-> FALSE, value |-> NameObj]

-----------------------------------------------------------------------------
(* The request timeline *)

admittedCalls == {i \in 1..Len(pending) : pending[i].pc = "admitted"}

(* The last n entries of s. *)
LastN(s, n) == SubSeq(s, Len(s) - n + 1, Len(s))

(* C12: in the first definition, with a constant quota and a serial caller, *)
(* the timeline never holds more than quota timestamps, holds at most       *)
(* quota - 1 when ensureRateLimit has returned, and is the issue timestamps *)
(* of the most recent requests, oldest first.                               *)
C12_TimelineBounded ==
    (def = 1 /\ serial)
    => /\ Len(requestsTimeline) <= maxAPICallsPerMinute
       /\ admittedCalls # {} => Len(requestsTimeline) <= maxAPICallsPerMinute - 1
       /\ Len(requestsTimeline) <= Len(issued)
       /\ requestsTimeline = LastN(issued, Len(requestsTimeline))

(* ensureRateLimit has just returned after dropping the oldest timestamp of *)
(* a full timeline.                                                         *)
C12_Witness ==
    /\ def = 1
    /\ admittedCalls # {}
    /\ maxAPICallsPerMinute >= 2
    /\ Len(issued) >= maxAPICallsPerMinute
    /\ Len(requestsTimeline) = maxAPICallsPerMinute - 1

-----------------------------------------------------------------------------
(* The synchronous operations *)

(* Nothing is sent and the timeline is left alone. *)
noRequest ==
    /\ requestsTimeline' = requestsTimeline
    /\ issued' = issued
    /\ pending' = pending
    /\ nextId' = nextId

(* C13: addExample, addMessage, middleware / processResult and result never *)
(* invoke the completion client and leave the timeline unchanged;           *)
(* addExample appends exactly a user message then an assistant message,     *)
(* addMessage exactly one message of the given role and content, and        *)
(* middleware and result leave the conversation unchanged.                  *)
C13_SynchronousFrame ==
    [][ /\ \A input \in Inputs, res \in Results :
              addExample(input, res)
              => /\ noRequest
                 /\ Len(messages') = Len(messages) + 2
                 /\ IsPrefix(messages, messages')
                 /\ messages'[Len(messages) + 1] = [role |-> "user", content |-> input]
                 /\ messages'[Len(messages) + 2].role = "assistant"
                 /\ JSONParse(messages'[Len(messages) + 2].content)
                        = [ok |-> TRUE, value |-> res]
        /\ \A m \in Added :
              addMessage(m[1], m[2])
              => /\ noRequest
                 /\ messages' = Append(messages, [role |-> m[2], content |-> m[1]])
        /\ (getResult \/ middleware) => (noRequest /\ messages' = messages) ]_vars

(* An example was added to a fresh instance: two messages, no request. *)
C13_Witness ==
    /\ Len(messages) = 2
    /\ messages[1] = [role |-> "user", content |-> "Alice"]
    /\ messages[2] = [role |-> "assistant", content |-> Pretty(NameObj)]
    /\ issued = <<>>
    /\ nextId = 0

-----------------------------------------------------------------------------
(* The sleep of the rate limiter *)

(* The window the instance's ensureRateLimit paces against. *)
windowOf(d) == IF d = 1 THEN OneMinute + Gap ELSE OneMinute

sleepingCalls == {i \in 1..Len(pending) : pending[i].pc = "sleeping"}

(* C14: a call that ensureRateLimit puts to sleep sleeps for the window     *)
(* minus the age of the oldest recorded timestamp, which is more than 0 and *)
(* at most the window (60200 ms in the first definition, 60000 ms in the    *)
(* second), and its request is issued no earlier than oldest + window.      *)
C14_SleepDuration ==
    serial =>
    /\ \A i \in sleepingCalls :
          LET currentTime == pending[i].wakeAt - pending[i].ms
              oldest == requestsTimeline[1]
          IN  /\ pending[i].ms = windowOf(def) - (currentTime - oldest)
              /\ pending[i].ms > 0
              /\ pending[i].ms <= windowOf(def)
              /\ pending[i].wakeAt = oldest + windowOf(def)
    /\ \A i \in 1..Len(pending) :
          (pending[i].ms > 0 /\ pending[i].pc = "inflight")
          => issued[Len(issued)] >= pending[i].wakeAt

(* A call sleeps for less than the whole window, the clock having moved     *)
(* since the oldest request.                                                *)
C14_Witness ==
    \E i \in sleepingCalls :
        /\ pending[i].ms > 0
        /\ pending[i].ms < windowOf(def)
        /\ now > requestsTimeline[1]

-----------------------------------------------------------------------------
(* The rate limiter delays only when needed *)

(* The requests issued within the window that ends at time t. *)
issuedWithin(t, window) ==
    {k \in 1..Len(issued) : issued[k] <= t /\ t - issued[k] < window}

(* C15: in the first definition with a constant quota and a serial caller, a *)
(* request cycle sleeps only if at least quota requests were issued within  *)
(* the 60200 ms before it was called; the first quota cycles never sleep.   *)
C15_SleepOnlyWhenNeeded ==
    (def = 1 /\ serial) =>
    \A i \in 1..Len(pending) :
        /\ Cardinality(issuedWithin(pending[i].wakeAt - pending[i].ms, OneMinute + Gap))
               < maxAPICallsPerMinute
           => (pending[i].ms = 0 /\ pending[i].pc # "sleeping")
        /\ pending[i].id <= maxAPICallsPerMinute => pending[i].ms = 0

(* A cycle later than the first quota cycles is admitted without a sleep, the *)
(* earlier requests having left the window.                                 *)
C15_Witness ==
    /\ def = 1
    /\ \E i \in 1..Len(pending) :
          /\ pending[i].pc = "admitted"
          /\ pending[i].ms = 0
          /\ pending[i].id > maxAPICallsPerMinute
          /\ Len(issued) >= maxAPICallsPerMinute
          /\ Cardinality(issuedWithin(now, OneMinute + Gap)) < maxAPICallsPerMinute

-----------------------------------------------------------------------------
(* Every request cycle finishes *)

isPending(id) == \E i \in 1..Len(pending) : pending[i].id = id

(* The promise of the call has settled: it returned or it threw. *)
finished(id) ==
    /\ ~isPending(id)
    /\ outcome.kind \in {"returned", "failed"}
    /\ outcome.id = id

(* A call that has left ensureRateLimit never sleeps again. *)
sleepsAtMostOnce ==
    \A i \in 1..Len(pending) :
        pending[i].pc # "sleeping"
        => \A j \in 1..Len(pending') :
              pending'[j].id = pending[i].id => pending'[j].pc # "sleeping"

(* C16: when the timer fires and the completion client responds, every      *)
(* translate call and every addContext call that passed its precondition    *)
(* finishes, after at most one rate-limit sleep, and the caller is then     *)
(* free to start the next request cycle.                                    *)
C16_EveryCycleFinishes ==
    /\ (serial /\ isPending(nextId)) ~> (finished(nextId) /\ pending = <<>>)
    /\ [][sleepsAtMostOnce]_vars

(* The call that had to sleep one whole window has returned. *)
C16_Witness ==
    /\ def = 1
    /\ pending = <<>>
    /\ outcome.kind = "returned"
    /\ outcome.id = nextId
    /\ Len(issued) > maxAPICallsPerMinute
    /\ issued[Len(issued)] - issued[Len(issued) - maxAPICallsPerMinute] = oneMinutePlusGap

-----------------------------------------------------------------------------
(* The gate of addContext *)

promptOf(d) == IF d = 1 THEN addContextPrompt ELSE completePrompt

anAssistantAnywhere == \E k \in 1..Len(messages) : messages[k].role = "assistant"

noSystemIn(msgs) == \A k \in 1..Len(msgs) : msgs[k].role # "system"

twoUsersInARow(msgs) ==
    \E k \in 1..(Len(msgs) - 1) : msgs[k].role = "user" /\ msgs[k + 1].role = "user"

(* C17: addContext called on a conversation holding a message of role       *)
(* assistant anywhere, however it got there, is not rejected: it appends    *)
(* its wrapped user message and starts a request cycle, whose request       *)
(* carries the conversation as it stands.                                   *)
C17_GateAnyAssistant ==
    [][ /\ \A input \in Inputs :
              (addContext(input, promptOf(def)) /\ anAssistantAnywhere)
              => /\ outcome'.kind # "rejected"
                 /\ messages' = Append(messages, contextMessage(input, promptOf(def)))
                 /\ Len(pending') = Len(pending) + 1
                 /\ pending'[Len(pending')].op = "addContext"
                 /\ pending'[Len(pending')].id = nextId + 1
        /\ \A i \in 1..Len(pending) :
              (issue(i) /\ pending[i].op = "addContext")
              => /\ pending'[i].sent = messages
                 /\ issued' = Append(issued, now) ]_vars

(* A request of addContext is in flight on a conversation that never saw     *)
(* translate: it has no system message and two user messages in a row.      *)
C17_Witness ==
    \E i \in 1..Len(pending) :
        /\ pending[i].op = "addContext"
        /\ pending[i].pc = "inflight"
        /\ pending[i].sent = messages
        /\ noSystemIn(messages)
        /\ twoUsersInARow(messages)
        /\ messages[Len(messages)] = contextMessage(pending[i].input, promptOf(def))
        /\ messages[1].role = "assistant"

-----------------------------------------------------------------------------
(* A failed request cycle *)

(* What the failed operation wrote to the conversation before its request. *)
writtenBeforeRequest ==
    IF outcome.op = "translate"
    THEN /\ Len(messages) = 2
         /\ messages[1].role = "system"
         /\ messages[2] = [role |-> "user", content |-> outcome.input]
    ELSE /\ Len(messages) >= 2
         /\ Last(messages) = contextMessage(outcome.input, promptOf(def))

(* C18: a failed request cycle is not rolled back.  After the completion    *)
(* client failed inside translate or addContext the conversation still      *)
(* holds the messages written before the request, so that result is null,   *)
(* and the timeline still ends with the timestamp of the failed attempt.    *)
C18_FailureNotRolledBack ==
    /\ [](outcome.kind = "failed" =>
            /\ writtenBeforeRequest
            /\ messages = outcome.sent
            /\ Last(messages).role = "user"
            /\ result(messages) = [threw |-> FALSE, value |-> JNull]
            /\ Len(issued) >= outcome.id
            /\ requestsTimeline # <<>>
            /\ Last(requestsTimeline) = issued[outcome.id])
    /\ [][ /\ \A i \in 1..Len(pending) :
                 fail(i) => /\ messages' = messages
                            /\ requestsTimeline' = requestsTimeline
                            /\ outcome'.kind = "failed"
           /\ (getResult /\ outcome.kind = "failed")
              => outcome'.got = [threw |-> FALSE, value |-> JNull] ]_vars

(* A translate call failed, and with its timestamp the timeline is full: the *)
(* next request cycle has to sleep.                                          *)
C18_Witness ==
    /\ outcome.kind = "failed"
    /\ outcome.op = "translate"
    /\ Len(messages) = 2
    /\ Len(requestsTimeline) = maxAPICallsPerMinute
    /\ Last(requestsTimeline) = now
    /\ now - requestsTimeline[1] < windowOf(def)

-----------------------------------------------------------------------------
(* Lowering the quota at run time *)

(* The requests issued after the quota was assigned. *)
issuedAfterChange ==
    {k \in 1..Len(issued) : k > quotaChange.n /\ issued[k] > quotaChange.at}

(* C19: in the first definition, once maxAPICallsPerMinute has been lowered  *)
(* between two awaited request cycles, no window of 60000 ms that starts    *)
(* after the assignment holds more than the new quota of issue timestamps,  *)
(* and the timeline holds at most the new quota of entries once a request   *)
(* has been issued under it.                                                *)
C19_LoweredQuotaHonoured ==
    (def = 1 /\ serial /\ quotaChange # NoChange) =>
    /\ \A i, j \in issuedAfterChange :
          j = i + maxAPICallsPerMinute => issued[j] - issued[i] >= OneMinute
    /\ issuedAfterChange # {} => Len(requestsTimeline) <= maxAPICallsPerMinute

====
